---- MODULE Spec2Model ----
(***************************************************************************)
(* Drug-food interaction checker: name normalization with a persistent     *)
(* cache (rxnorm.py), the rule-based predictor (ml_model/predict.py), the  *)
(* MedlinePlus scraper (medline_scraper.py) and the orchestrator           *)
(* (core.py).                                                              *)
(*                                                                         *)
(* Python strings are sequences of one-character strings, so that          *)
(* lower(), strip() and the "in" substring test are computed.  The fixed   *)
(* pieces of an f-string template that no code inspects are kept as one    *)
(* element each.  None is the one-element sequence <<"<None>">>.           *)
(***************************************************************************)
EXTENDS Integers, Sequences, FiniteSets, TLC

VARIABLES
  DRUG_CACHE,   \* rxnorm.DRUG_CACHE of the process running the sequential calls
  cacheFile,    \* content of data/drug_cache.json
  call,         \* the last completed name lookup: what was asked, returned and done
  watch,        \* history: one earlier lookup that resolved a name, and its value
  writable,     \* whether data/drug_cache.json can be written during this run
  candidates,   \* the concepts of the drugs.json answer a single lookup is given
  query,        \* the (drug, food) pair given to predict_interaction
  verdict,      \* the text predict_interaction returned, None before the call
  pc,           \* position of the invocation of check_interaction
  raw_drug,     \* its argument drug
  raw_food,     \* its argument food
  fault,        \* the dependency that raises during the invocation, if any
  hung,         \* the external service that never responds during it, if any
  generic_drug,     \* local of check_interaction
  pending,          \* interaction_sections once the summary is asked for
  official_result,  \* local of check_interaction
  ai_response,      \* local of check_interaction
  result,           \* the tuple check_interaction returns
  invoked,          \* history: calls made during the invocation
  modelLoaded,      \* whether llm.gemini_fallback.model is set
  layout,       \* concurrent lookups run as threads of one process or as processes
  memory,       \* rxnorm.DRUG_CACHE of each process running concurrent lookups
  at,           \* position of each concurrent lookup in get_generic_name
  job,          \* the name each concurrent lookup resolves
  found,        \* the value each concurrent lookup is about to cache
  wrote         \* history: the entries the concurrent lookups put in a cache

resolveVars == <<DRUG_CACHE, cacheFile, call, watch, writable, candidates>>

predictVars == <<query, verdict>>

coreVars == <<pc, raw_drug, raw_food, fault, hung, generic_drug, pending, official_result,
              ai_response, result, invoked, modelLoaded>>

concVars == <<layout, memory, at, job, found, wrote>>

vars == <<resolveVars, predictVars, coreVars, concVars>>

-----------------------------------------------------------------------------
(* Python values and string operations *)

None == <<"<None>">>

UpperChars == <<"A","B","C","D","E","F","G","H","I","J","K","L","M","N","O","P","Q","R","S","T","U","V","W","X","Y","Z">>

LowerChars == <<"a","b","c","d","e","f","g","h","i","j","k","l","m","n","o","p","q","r","s","t","u","v","w","x","y","z">>

Whitespace == {" ", "\t", "\n", "\r"}

\* bool(x) of a str or None
truthy(x) == x # None /\ x # <<>>

\* The ASCII letter pairs str.lower() and str.upper() map
ToLower == [c \in {UpperChars[i] : i \in DOMAIN UpperChars} |->
              LowerChars[CHOOSE i \in DOMAIN UpperChars : UpperChars[i] = c]]

ToUpper == [c \in {LowerChars[i] : i \in DOMAIN LowerChars} |->
              UpperChars[CHOOSE i \in DOMAIN LowerChars : LowerChars[i] = c]]

lower_ch(c) == IF c \in DOMAIN ToLower THEN ToLower[c] ELSE c

upper_ch(c) == IF c \in DOMAIN ToUpper THEN ToUpper[c] ELSE c

\* str.lower()
lower(s) == [i \in DOMAIN s |-> lower_ch(s[i])]

\* str.upper(), used to draw inputs in another letter case
upper(s) == [i \in DOMAIN s |-> upper_ch(s[i])]

\* str.strip()
strip(s) ==
  LET keep == {i \in DOMAIN s : s[i] \notin Whitespace}
  IN IF keep = {} THEN <<>>
     ELSE LET lo == CHOOSE i \in keep : \A j \in keep : i <= j
              hi == CHOOSE i \in keep : \A j \in keep : j <= i
          IN SubSeq(s, lo, hi)

\* sub in s
contains(sub, s) ==
  \E i \in 0..(Len(s) - Len(sub)) : SubSeq(s, i + 1, i + Len(sub)) = sub

\* any(w in s for w in words)
contains_any(words, s) == \E w \in words : contains(w, s)

\* dict lookups: a dict is a function on its keys
has_key(d, k) == k \in DOMAIN d

dict_set(d, k, v) == [x \in DOMAIN d \cup {k} |-> IF x = k THEN v ELSE d[x]]

EmptyDict == [x \in {} |-> None]

-----------------------------------------------------------------------------
(* rxnorm.py *)

COMMON_DRUG_MAPPINGS ==
  <<"l","i","p","i","t","o","r">> :> <<"a","t","o","r","v","a","s","t","a","t","i","n">> @@
  <<"z","o","c","o","r">> :> <<"s","i","m","v","a","s","t","a","t","i","n">> @@
  <<"c","o","u","m","a","d","i","n">> :> <<"w","a","r","f","a","r","i","n">> @@
  <<"t","y","l","e","n","o","l">> :> <<"a","c","e","t","a","m","i","n","o","p","h","e","n">> @@
  <<"a","d","v","i","l">> :> <<"i","b","u","p","r","o","f","e","n">> @@
  <<"a","s","p","i","r","i","n">> :> <<"a","c","e","t","y","l","s","a","l","i","c","y","l","i","c"," ","a","c","i","d">> @@
  <<"p","r","o","z","a","c">> :> <<"f","l","u","o","x","e","t","i","n","e">> @@
  <<"z","o","l","o","f","t">> :> <<"s","e","r","t","r","a","l","i","n","e">> @@
  <<"p","a","x","i","l">> :> <<"p","a","r","o","x","e","t","i","n","e">> @@
  <<"l","e","x","a","p","r","o">> :> <<"e","s","c","i","t","a","l","o","p","r","a","m">> @@
  <<"c","e","l","e","x","a">> :> <<"c","i","t","a","l","o","p","r","a","m">> @@
  <<"w","e","l","l","b","u","t","r","i","n">> :> <<"b","u","p","r","o","p","i","o","n">> @@
  <<"e","f","f","e","x","o","r">> :> <<"v","e","n","l","a","f","a","x","i","n","e">> @@
  <<"c","y","m","b","a","l","t","a">> :> <<"d","u","l","o","x","e","t","i","n","e">> @@
  <<"a","b","i","l","i","f","y">> :> <<"a","r","i","p","i","p","r","a","z","o","l","e">> @@
  <<"z","y","p","r","e","x","a">> :> <<"o","l","a","n","z","a","p","i","n","e">> @@
  <<"r","i","s","p","e","r","d","a","l">> :> <<"r","i","s","p","e","r","i","d","o","n","e">> @@
  <<"s","e","r","o","q","u","e","l">> :> <<"q","u","e","t","i","a","p","i","n","e">> @@
  <<"g","e","o","d","o","n">> :> <<"z","i","p","r","a","s","i","d","o","n","e">> @@
  <<"c","l","o","z","a","r","i","l">> :> <<"c","l","o","z","a","p","i","n","e">>

\* save_drug_cache(): json.dump of the whole in-memory dict over the file; a
\* failure of makedirs/open is logged and leaves the file as it was.
save_drug_cache(cache, file, ok) == IF ok THEN cache ELSE file

\* load_drug_cache(): the in-memory dict is the file's content
load_drug_cache(file) == file

\* A concept of the drugs.json answer without a "name" key
Missing == <<"<missing>">>

\* concept.get("name", drug_name)
concept_name(c, drug_name) == IF c.name = Missing THEN drug_name ELSE c.name

\* The loop over conceptGroup/conceptProperties (groups flattened in order):
\* each of the three branches assigns only while best_match is still falsy.
RECURSIVE best_match_loop(_, _, _)
best_match_loop(concepts, drug_name, best_match) ==
  IF concepts = <<>> THEN best_match
  ELSE LET concept == Head(concepts)
           next == IF concept.synonymType = "BN" /\ ~truthy(best_match)
                     THEN concept_name(concept, drug_name)
                   ELSE IF concept.synonymType = "IN" /\ ~truthy(best_match)
                     THEN concept_name(concept, drug_name)
                   ELSE IF ~truthy(best_match)
                     THEN concept_name(concept, drug_name)
                   ELSE best_match
       IN best_match_loop(Tail(concepts), drug_name, next)

\* What one name lookup did: the value returned, the cache and the file
\* after it, the requests sent to the terminology service, the cache
\* writes, and the branch that returned.
Outcome(ret, cache, file, network, writes, path) ==
  [ret |-> ret, cache |-> cache, file |-> file,
   network |-> network, writes |-> writes, path |-> path]

\* Mutant of cache_and_save: the entry is stored under the name as typed
cache_and_save_rawkey(cache, file, drug_name, value, ok) ==
  LET c == dict_set(cache, drug_name, value)
  IN [cache |-> c, file |-> save_drug_cache(c, file, ok)]

\* DRUG_CACHE[drug_name.lower()] = value; save_drug_cache()
cache_and_save(cache, file, drug_name, value, ok) ==
  LET c == dict_set(cache, lower(drug_name), value)
  IN [cache |-> c, file |-> save_drug_cache(c, file, ok)]

\* get_generic_name_alternative(drug_name), entered after `sent` requests.
\* svc.rxcui is the rxcui.json answer: "fail" (request or decoding error),
\* "empty" (rxnormId is [], so [0] raises), "none" (no idGroup id) or "id";
\* svc.props is the properties.json answer.
get_generic_name_alternative(drug_name, cache, file, svc, sent) ==
  IF svc.rxcui \in {"fail", "empty"}
    THEN Outcome(drug_name, cache, file, sent + 1, 0, "alt_fail")
  ELSE IF svc.rxcui = "id" /\ svc.props.kind = "fail"
    THEN Outcome(drug_name, cache, file, sent + 2, 0, "alt_fail")
  ELSE
    LET generic_name == IF svc.props.name = Missing THEN drug_name ELSE svc.props.name
        asked == IF svc.rxcui = "id" THEN sent + 2 ELSE sent + 1
    IN IF svc.rxcui = "id" /\ generic_name # drug_name
         THEN LET w == cache_and_save(cache, file, drug_name, generic_name, svc.save)
              IN Outcome(generic_name, w.cache, w.file, asked, 1, "alt")
         ELSE LET w == cache_and_save(cache, file, drug_name, drug_name, svc.save)
              IN Outcome(drug_name, w.cache, w.file, asked, 1, "alt_orig")

\* The guard of rxnorm.py line 87
is_new_match(best_match, drug_name) == truthy(best_match) /\ best_match # drug_name

\* get_generic_name(drug_name).  svc.primary is the drugs.json answer:
\* kind "fail" (RequestException, timeout, undecodable body) or "ok" with
\* the concepts in the order returned.
get_generic_name(drug_name, cache, file, svc) ==
  IF ~truthy(drug_name) \/ ~truthy(strip(drug_name))
    THEN Outcome(drug_name, cache, file, 0, 0, "blank")
  ELSE
    LET name == strip(drug_name)
    IN IF has_key(cache, lower(name))
         THEN Outcome(cache[lower(name)], cache, file, 0, 0, "hit")
       ELSE IF svc.primary.kind = "fail"
         THEN Outcome(name, cache, file, 1, 0, "primary_fail")
       ELSE
         LET best_match == best_match_loop(svc.primary.concepts, name, None)
         IN IF is_new_match(best_match, name)
              THEN LET w == cache_and_save(cache, file, name, best_match, svc.save)
                   IN Outcome(best_match, w.cache, w.file, 1, 1, "primary")
              ELSE get_generic_name_alternative(name, cache, file, svc, 1)

\* get_generic_name_quick(drug_name): alias table, then cache, then the API
get_generic_name_quick(drug_name, cache, file, svc) ==
  LET drug_lower == lower(drug_name)
  IN IF has_key(COMMON_DRUG_MAPPINGS, drug_lower)
       THEN Outcome(COMMON_DRUG_MAPPINGS[drug_lower], cache, file, 0, 0, "alias")
     ELSE IF has_key(cache, drug_lower)
       THEN Outcome(cache[drug_lower], cache, file, 0, 0, "hit")
     ELSE get_generic_name(drug_name, cache, file, svc)

-----------------------------------------------------------------------------
(* ml_model/predict.py *)

\* DRUG_FOOD_INTERACTIONS in insertion order (the order dict iteration
\* follows).  The texts no code inspects are kept as one element.
Interaction(drug, food, risk, mechanism, effect, recommendation) ==
  [drug |-> drug, food |-> food, risk |-> <<risk>>, mechanism |-> <<mechanism>>,
   effect |-> <<effect>>, recommendation |-> recommendation]

DRUG_FOOD_INTERACTIONS == <<
  Interaction(<<"a","t","o","r","v","a","s","t","a","t","i","n">>, <<"g","r","a","p","e","f","r","u","i","t">>, "High",
    "Grapefruit inhibits CYP3A4 enzyme, increasing atorvastatin concentration",
    "Increased risk of muscle damage and liver problems",
    <<"A","v","o","i","d"," ","g","r","a","p","e","f","r","u","i","t"," ","a","n","d"," ","g","r","a","p","e","f","r","u","i","t"," ","j","u","i","c","e"," ","w","h","i","l","e"," ","t","a","k","i","n","g"," ","a","t","o","r","v","a","s","t","a","t","i","n">>),
  Interaction(<<"s","i","m","v","a","s","t","a","t","i","n">>, <<"g","r","a","p","e","f","r","u","i","t">>, "High",
    "Grapefruit inhibits CYP3A4, increasing simvastatin levels",
    "Higher risk of muscle pain and liver damage",
    <<"A","v","o","i","d"," ","g","r","a","p","e","f","r","u","i","t"," ","p","r","o","d","u","c","t","s"," ","c","o","m","p","l","e","t","e","l","y">>),
  Interaction(<<"w","a","r","f","a","r","i","n">>, <<"s","p","i","n","a","c","h">>, "Moderate",
    "Spinach is high in vitamin K, which counteracts warfarin",
    "Reduced anticoagulant effect, increased clotting risk",
    <<"M","a","i","n","t","a","i","n"," ","c","o","n","s","i","s","t","e","n","t"," ","v","i","t","a","m","i","n"," ","K"," ","i","n","t","a","k","e",","," ","d","o","n","'","t"," ","s","u","d","d","e","n","l","y"," ","c","h","a","n","g","e"," ","d","i","e","t">>),
  Interaction(<<"w","a","r","f","a","r","i","n">>, <<"c","r","a","n","b","e","r","r","y">>, "Moderate",
    "Cranberry may increase warfarin's anticoagulant effect",
    "Increased bleeding risk",
    <<"L","i","m","i","t"," ","c","r","a","n","b","e","r","r","y"," ","p","r","o","d","u","c","t","s"," ","a","n","d"," ","m","o","n","i","t","o","r"," ","f","o","r"," ","b","l","e","e","d","i","n","g">>),
  Interaction(<<"t","e","t","r","a","c","y","c","l","i","n","e">>, <<"d","a","i","r","y">>, "Moderate",
    "Calcium in dairy products binds to tetracycline",
    "Reduced antibiotic absorption and effectiveness",
    <<"T","a","k","e"," ","t","e","t","r","a","c","y","c","l","i","n","e"," ","2"," ","h","o","u","r","s"," ","b","e","f","o","r","e"," ","o","r"," ","4"," ","h","o","u","r","s"," ","a","f","t","e","r"," ","d","a","i","r","y">>),
  Interaction(<<"c","i","p","r","o","f","l","o","x","a","c","i","n">>, <<"d","a","i","r","y">>, "Moderate",
    "Calcium interferes with ciprofloxacin absorption",
    "Decreased antibiotic effectiveness",
    <<"A","v","o","i","d"," ","d","a","i","r","y"," ","p","r","o","d","u","c","t","s"," ","2"," ","h","o","u","r","s"," ","b","e","f","o","r","e"," ","a","n","d"," ","a","f","t","e","r"," ","t","a","k","i","n","g"," ","c","i","p","r","o","f","l","o","x","a","c","i","n">>),
  Interaction(<<"l","i","s","i","n","o","p","r","i","l">>, <<"b","a","n","a","n","a">>, "Moderate",
    "Bananas are high in potassium, lisinopril can increase potassium levels",
    "Risk of hyperkalemia (high potassium)",
    <<"M","o","n","i","t","o","r"," ","p","o","t","a","s","s","i","u","m"," ","i","n","t","a","k","e",","," ","a","v","o","i","d"," ","e","x","c","e","s","s","i","v","e"," ","b","a","n","a","n","a","s">>),
  Interaction(<<"s","p","i","r","o","n","o","l","a","c","t","o","n","e">>, <<"b","a","n","a","n","a">>, "Moderate",
    "Both spironolactone and bananas increase potassium",
    "Increased risk of hyperkalemia",
    <<"L","i","m","i","t"," ","h","i","g","h","-","p","o","t","a","s","s","i","u","m"," ","f","o","o","d","s"," ","l","i","k","e"," ","b","a","n","a","n","a","s">>),
  Interaction(<<"p","h","e","n","e","l","z","i","n","e">>, <<"a","g","e","d","_","c","h","e","e","s","e">>, "High",
    "Aged cheese contains tyramine, MAOIs prevent its breakdown",
    "Tyramine buildup can cause severe hypertension",
    <<"A","v","o","i","d"," ","a","g","e","d"," ","c","h","e","e","s","e","s",","," ","c","u","r","e","d"," ","m","e","a","t","s",","," ","a","n","d"," ","f","e","r","m","e","n","t","e","d"," ","f","o","o","d","s">>),
  Interaction(<<"t","r","a","n","y","l","c","y","p","r","o","m","i","n","e">>, <<"r","e","d","_","w","i","n","e">>, "High",
    "Red wine contains tyramine, MAOIs prevent its metabolism",
    "Dangerous blood pressure spikes",
    <<"A","v","o","i","d"," ","r","e","d"," ","w","i","n","e"," ","a","n","d"," ","o","t","h","e","r"," ","t","y","r","a","m","i","n","e","-","r","i","c","h"," ","f","o","o","d","s">>),
  Interaction(<<"m","e","t","f","o","r","m","i","n">>, <<"a","l","c","o","h","o","l">>, "Moderate",
    "Alcohol can increase metformin's effect on lactic acid",
    "Increased risk of lactic acidosis",
    <<"L","i","m","i","t"," ","a","l","c","o","h","o","l"," ","c","o","n","s","u","m","p","t","i","o","n"," ","w","h","i","l","e"," ","t","a","k","i","n","g"," ","m","e","t","f","o","r","m","i","n">>),
  Interaction(<<"l","e","v","o","t","h","y","r","o","x","i","n","e">>, <<"s","o","y">>, "Moderate",
    "Soy can interfere with levothyroxine absorption",
    "Reduced thyroid hormone effectiveness",
    <<"T","a","k","e"," ","l","e","v","o","t","h","y","r","o","x","i","n","e"," ","4"," ","h","o","u","r","s"," ","b","e","f","o","r","e"," ","o","r"," ","a","f","t","e","r"," ","s","o","y"," ","p","r","o","d","u","c","t","s">>),
  Interaction(<<"l","e","v","o","t","h","y","r","o","x","i","n","e">>, <<"i","r","o","n","_","s","u","p","p","l","e","m","e","n","t","s">>, "Moderate",
    "Iron can bind to levothyroxine in the gut",
    "Decreased thyroid hormone absorption",
    <<"S","e","p","a","r","a","t","e"," ","i","r","o","n"," ","s","u","p","p","l","e","m","e","n","t","s"," ","b","y"," ","4"," ","h","o","u","r","s"," ","f","r","o","m"," ","l","e","v","o","t","h","y","r","o","x","i","n","e">>) >>

\* FOOD_CATEGORIES in insertion order: category name and member list
FOOD_CATEGORIES == <<
  [category |-> <<"g","r","a","p","e","f","r","u","i","t">>,
   foods |-> <<<<"g","r","a","p","e","f","r","u","i","t">>, <<"g","r","a","p","e","f","r","u","i","t"," ","j","u","i","c","e">>, <<"c","i","t","r","u","s">>>>],
  [category |-> <<"d","a","i","r","y">>,
   foods |-> <<<<"m","i","l","k">>, <<"c","h","e","e","s","e">>, <<"y","o","g","u","r","t">>, <<"c","r","e","a","m">>, <<"b","u","t","t","e","r">>, <<"i","c","e"," ","c","r","e","a","m">>>>],
  [category |-> <<"h","i","g","h","_","p","o","t","a","s","s","i","u","m">>,
   foods |-> <<<<"b","a","n","a","n","a">>, <<"p","o","t","a","t","o">>, <<"t","o","m","a","t","o">>, <<"a","v","o","c","a","d","o">>, <<"s","p","i","n","a","c","h">>, <<"k","a","l","e">>>>],
  [category |-> <<"h","i","g","h","_","v","i","t","a","m","i","n","_","k">>,
   foods |-> <<<<"s","p","i","n","a","c","h">>, <<"k","a","l","e">>, <<"b","r","o","c","c","o","l","i">>, <<"b","r","u","s","s","e","l","s"," ","s","p","r","o","u","t","s">>, <<"c","a","b","b","a","g","e">>>>],
  [category |-> <<"t","y","r","a","m","i","n","e","_","r","i","c","h">>,
   foods |-> <<<<"a","g","e","d"," ","c","h","e","e","s","e">>, <<"c","u","r","e","d"," ","m","e","a","t">>, <<"s","a","l","a","m","i">>, <<"p","e","p","p","e","r","o","n","i">>, <<"r","e","d"," ","w","i","n","e">>, <<"b","e","e","r">>>>],
  [category |-> <<"i","r","o","n","_","r","i","c","h">>,
   foods |-> <<<<"r","e","d"," ","m","e","a","t">>, <<"s","p","i","n","a","c","h">>, <<"b","e","a","n","s">>, <<"l","e","n","t","i","l","s">>, <<"i","r","o","n"," ","s","u","p","p","l","e","m","e","n","t","s">>>>] >>

\* x in a_list
in_list(x, list) == \E i \in DOMAIN list : list[i] = x

\* The least of the indices at which a loop with a return inside would
\* return, 0 when there is none: the first match wins.
first_index(hits) ==
  IF hits = {} THEN 0 ELSE CHOOSE i \in hits : \A j \in hits : i <= j

\* The entries of DRUG_FOOD_INTERACTIONS with drug and food exactly these
direct_hits(drug, food) ==
  {i \in DOMAIN DRUG_FOOD_INTERACTIONS :
     DRUG_FOOD_INTERACTIONS[i].drug = drug /\ DRUG_FOOD_INTERACTIONS[i].food = food}

\* format_interaction_result(interaction, drug, food)
format_interaction_result(interaction, drug, food) ==
  LET recommendation_text == interaction.recommendation
      action == IF contains(<<"a","v","o","i","d">>, lower(recommendation_text)) THEN "Avoid"
                ELSE IF contains(<<"l","i","m","i","t">>, lower(recommendation_text)) THEN "Limit"
                ELSE IF contains(<<"m","o","n","i","t","o","r">>, lower(recommendation_text)) THEN "Monitor"
                ELSE "Safe"
  IN <<"\n", "**RISK LEVEL**: ">> \o interaction.risk
       \o <<"\n", "\n", "**INTERACTION**: ", "Yes", " - Known interaction in medical database",
            "\n", "\n", "**RECOMMENDATION**: ", action, " - ">>
       \o lower(recommendation_text)
       \o <<"\n", "\n", "**REASON**: ">> \o interaction.mechanism
       \o <<"\n", "\n", "---", "\n",
            "*Source: ML Prediction - Based on known drug-food interactions*", "\n">>

\* generate_no_interaction_response(drug, food)
generate_no_interaction_response(drug, food) ==
  <<"\n", "**RISK LEVEL**: ", "None",
    "\n", "\n", "**INTERACTION**: ", "No", " - No known interactions in database",
    "\n", "\n", "**RECOMMENDATION**: ", "Safe",
    " - This combination appears safe based on available data",
    "\n", "\n", "**REASON**: ",
    "No significant drug-food interactions found in our medical database",
    "\n", "\n", "---", "\n",
    "*Source: ML Prediction - Based on known drug-food interactions*", "\n">>

\* The text returned by the except branch of predict_interaction
PredictionError ==
  <<"<U+26A0 U+FE0F>", " **Prediction Error**", "\n", "\n",
    "Unable to predict interaction due to an error. Please consult a healthcare provider.">>

\* The entries of this drug whose food term is in the list `foods`
category_hits(drug_lower, foods) ==
  {i \in DOMAIN DRUG_FOOD_INTERACTIONS :
     drug_lower = DRUG_FOOD_INTERACTIONS[i].drug
       /\ in_list(DRUG_FOOD_INTERACTIONS[i].food, foods)}

\* The category loop of predict_interaction: the first category holding the
\* food whose member list also holds the food term of an entry of this drug.
category_match(drug_lower, food_lower) ==
  LET ci == first_index({c \in DOMAIN FOOD_CATEGORIES :
                           in_list(food_lower, FOOD_CATEGORIES[c].foods)
                             /\ category_hits(drug_lower, FOOD_CATEGORIES[c].foods) # {}})
  IN IF ci = 0 THEN 0
     ELSE first_index(category_hits(drug_lower, FOOD_CATEGORIES[ci].foods))

\* The partial-name loop of predict_interaction
partial_match(drug_lower, food_lower) ==
  first_index({i \in DOMAIN DRUG_FOOD_INTERACTIONS :
     LET e == DRUG_FOOD_INTERACTIONS[i]
     IN /\ contains(drug_lower, e.drug) \/ contains(e.drug, drug_lower)
        /\ food_lower = e.food \/ contains(food_lower, e.food)})

\* Mutant of predict_interaction: the direct lookup compares the arguments
\* as typed
predict_interaction_case_sensitive(drug, food) ==
  LET di == first_index(direct_hits(drug, food))
      ci == category_match(drug, food)
      pi == partial_match(drug, food)
  IN IF di # 0 THEN format_interaction_result(DRUG_FOOD_INTERACTIONS[di], drug, food)
     ELSE IF ci # 0 THEN format_interaction_result(DRUG_FOOD_INTERACTIONS[ci], drug, food)
     ELSE IF pi # 0 THEN format_interaction_result(DRUG_FOOD_INTERACTIONS[pi], drug, food)
     ELSE generate_no_interaction_response(drug, food)

\* predict_interaction(drug, food)
predict_interaction(drug, food) ==
  IF drug = None \/ food = None THEN PredictionError
  ELSE
    LET drug_lower == lower(drug)
        food_lower == lower(food)
        di == first_index(direct_hits(drug_lower, food_lower))
        ci == category_match(drug_lower, food_lower)
        pi == partial_match(drug_lower, food_lower)
    IN IF di # 0 THEN format_interaction_result(DRUG_FOOD_INTERACTIONS[di], drug, food)
       ELSE IF ci # 0 THEN format_interaction_result(DRUG_FOOD_INTERACTIONS[ci], drug, food)
       ELSE IF pi # 0 THEN format_interaction_result(DRUG_FOOD_INTERACTIONS[pi], drug, food)
       ELSE generate_no_interaction_response(drug, food)

-----------------------------------------------------------------------------
(* medline_scraper.py *)

\* A raised exception, where a value would have been returned
Raise == <<"<raise>">>

Digits == {"0", "1", "2", "3", "4", "5", "6", "7", "8", "9"}

\* str.replace(old, ''): every occurrence, left to right, not overlapping
RECURSIVE remove_all(_, _)
remove_all(old, s) ==
  IF Len(s) < Len(old) THEN s
  ELSE IF SubSeq(s, 1, Len(old)) = old
    THEN remove_all(old, SubSeq(s, Len(old) + 1, Len(s)))
  ELSE <<s[1]>> \o remove_all(old, Tail(s))

\* for word in words: name = name.replace(word, '')
RECURSIVE remove_each(_, _)
remove_each(words, s) ==
  IF words = <<>> THEN s ELSE remove_each(Tail(words), remove_all(Head(words), s))

\* Length of the longest prefix of s made of characters of the class
RECURSIVE run_length(_, _)
run_length(class, s) ==
  IF s # <<>> /\ s[1] \in class THEN 1 + run_length(class, Tail(s)) ELSE 0

\* Length of the match of \d+\s*mg at the start of s, 0 when it does not match
dosage_match(s) ==
  LET d == run_length(Digits, s)
      rest == SubSeq(s, d + 1, Len(s))
      w == run_length(Whitespace, rest)
  IN IF d > 0 /\ SubSeq(rest, w + 1, w + 2) = <<"m", "g">> THEN d + w + 2 ELSE 0

\* re.sub(r'\d+\s*mg', '', name)
RECURSIVE remove_dosage(_)
remove_dosage(s) ==
  IF s = <<>> THEN s
  ELSE LET n == dosage_match(s)
       IN IF n > 0 THEN remove_dosage(SubSeq(s, n + 1, Len(s)))
          ELSE <<s[1]>> \o remove_dosage(Tail(s))

\* Length of the match of \[.*?\] at the start of s, 0 when it does not match
bracket_match(s) ==
  LET closes == {j \in 2..Len(s) : s[j] = "]" /\ \A k \in 2..(j - 1) : s[k] # "\n"}
  IN IF s # <<>> /\ s[1] = "[" /\ closes # {}
       THEN CHOOSE j \in closes : \A k \in closes : j <= k
       ELSE 0

\* re.sub(r'\[.*?\]', '', name)
RECURSIVE remove_brackets(_)
remove_brackets(s) ==
  IF s = <<>> THEN s
  ELSE LET n == bracket_match(s)
       IN IF n > 0 THEN remove_brackets(SubSeq(s, n + 1, Len(s)))
          ELSE <<s[1]>> \o remove_brackets(Tail(s))

\* re.sub(r'\s+', ' ', name)
RECURSIVE collapse_spaces(_)
collapse_spaces(s) ==
  IF s = <<>> THEN s
  ELSE LET w == run_length(Whitespace, s)
       IN IF w > 0 THEN <<" ">> \o collapse_spaces(SubSeq(s, w + 1, Len(s)))
          ELSE <<s[1]>> \o collapse_spaces(Tail(s))

\* s.split()[0]; Raise (IndexError) when s holds no word
first_word(s) ==
  LET lead == run_length(Whitespace, s)
      rest == SubSeq(s, lead + 1, Len(s))
      n == run_length({rest[i] : i \in DOMAIN rest} \ Whitespace, rest)
  IN IF n = 0 THEN Raise ELSE SubSeq(rest, 1, n)

DosageForms ==
  <<<<"o","r","a","l"," ","t","a","b","l","e","t">>, <<"o","r","a","l"," ","c","a","p","s","u","l","e">>, <<"o","r","a","l"," ","s","o","l","u","t","i","o","n">>, <<"i","n","j","e","c","t","i","o","n">>,
    <<"c","r","e","a","m">>, <<"g","e","l">>, <<"p","a","t","c","h">>>>

SaltForms ==
  <<<<"s","o","d","i","u","m">>, <<"h","y","d","r","o","c","h","l","o","r","i","d","e">>, <<"s","u","l","f","a","t","e">>, <<"p","h","o","s","p","h","a","t","e">>, <<"a","c","e","t","a","t","e">>,
    <<"c","i","t","r","a","t","e">>, <<"t","a","r","t","r","a","t","e">>>>

\* Shortest stripped name that is kept (medline_scraper.py line 94)
MinNameLen == 3

\* extract_generic_name(rxnorm_name)
extract_generic_name(rxnorm_name) ==
  IF ~truthy(rxnorm_name) THEN rxnorm_name
  ELSE
    LET name == strip(collapse_spaces(
                  remove_each(SaltForms,
                    remove_brackets(
                      remove_each(DosageForms,
                        remove_dosage(lower(rxnorm_name)))))))
    IN IF Len(name) < MinNameLen
         THEN LET w == first_word(rxnorm_name)
              IN IF w = Raise THEN Raise ELSE lower(w)
         ELSE name

\* Keys of data/drug_lookup.json, the drug -> URL table loaded at import
DRUG_LOOKUP == {<<"a","t","o","r","v","a","s","t","a","t","i","n">>, <<"w","a","r","f","a","r","i","n">>}

HeadingTags == {"h1", "h2", "h3", "h4", "h5", "h6"}

food_related_headers ==
  {<<"f","o","o","d">>, <<"d","i","e","t">>, <<"g","r","a","p","e","f","r","u","i","t">>, <<"a","l","c","o","h","o","l">>, <<"m","e","a","l","s">>, <<"e","a","t","i","n","g">>,
   <<"n","u","t","r","i","t","i","o","n">>, <<"s","u","p","p","l","e","m","e","n","t","s">>, <<"v","i","t","a","m","i","n","s">>, <<"m","i","n","e","r","a","l","s">>}

food_keywords ==
  {<<"f","o","o","d">>, <<"g","r","a","p","e","f","r","u","i","t">>, <<"d","r","i","n","k">>, <<"e","a","t">>, <<"m","e","a","l">>, <<"c","h","e","e","s","e">>, <<"t","y","r","a","m","i","n","e">>,
   <<"a","l","c","o","h","o","l">>, <<"d","i","e","t">>, <<"n","u","t","r","i","t","i","o","n">>, <<"s","u","p","p","l","e","m","e","n","t">>, <<"v","i","t","a","m","i","n">>, <<"m","i","n","e","r","a","l">>,
   <<"h","e","r","b">>, <<"s","p","i","c","e">>, <<"j","u","i","c","e">>}

\* ' '.join(parts)
RECURSIVE join_spaces(_)
join_spaces(parts) ==
  IF parts = <<>> THEN <<>>
  ELSE IF Len(parts) = 1 THEN parts[1]
  ELSE parts[1] \o <<" ">> \o join_spaces(Tail(parts))

\* The elements of a sequence at the indices of a set, in order
RECURSIVE pick(_, _, _)
pick(seq, keep, i) ==
  IF i > Len(seq) THEN <<>>
  ELSE (IF i \in keep THEN <<seq[i]>> ELSE <<>>) \o pick(seq, keep, i + 1)

\* extract_section_content(element, soup) for element i of a page whose
\* elements are siblings: its own text, then the p/li/div siblings that
\* follow up to the next heading; None when nothing has text.
extract_section_content(page, i) ==
  LET later == {k \in (i + 1)..Len(page) : page[k].tag \in HeadingTags}
      stop == IF later = {} THEN Len(page) + 1
              ELSE CHOOSE k \in later : \A m \in later : k <= m
      keep == {k \in i..(stop - 1) :
                 /\ truthy(strip(page[k].text))
                 /\ k = i \/ page[k].tag \in {"p", "li", "div"}}
      content == pick([k \in DOMAIN page |-> strip(page[k].text)], keep, 1)
  IN IF content = <<>> THEN None ELSE join_spaces(content)

\* interaction_sections after the two scans of scrape_medlineplus (lines 130-161)
find_sections(page) ==
  LET by_header == {i \in DOMAIN page :
                      /\ contains_any(food_related_headers, lower(page[i].text))
                      /\ extract_section_content(page, i) # None}
      general == {i \in DOMAIN page :
                    /\ page[i].tag \in {"p", "li"}
                    /\ contains_any(food_keywords, lower(page[i].text))}
  IN IF by_header # {}
       THEN pick([i \in DOMAIN page |-> extract_section_content(page, i)], by_header, 1)
       ELSE pick([i \in DOMAIN page |-> strip(page[i].text)], general, 1)

\* The narrowing to the requested food (lines 164-172)
filter_by_food(interaction_sections, food_item) ==
  IF truthy(food_item) /\ interaction_sections # <<>>
  THEN LET keep == {i \in DOMAIN interaction_sections :
                      contains(lower(food_item), lower(interaction_sections[i]))}
       IN IF keep # {} THEN pick(interaction_sections, keep, 1)
          ELSE interaction_sections
  ELSE interaction_sections

\* Mutant of classify: the words of the second rank are looked for first
classify_moderate_first(sections) ==
  LET content_text == lower(join_spaces(sections))
  IN IF contains_any({<<"l","i","m","i","t">>, <<"r","e","d","u","c","e">>, <<"m","o","d","e","r","a","t","e">>, <<"c","a","u","t","i","o","n">>}, content_text)
       THEN [risk_level |-> <<"M","o","d","e","r","a","t","e">>, recommendation |-> <<"L","i","m","i","t">>]
     ELSE IF contains_any({<<"a","v","o","i","d">>, <<"c","o","n","t","r","a","i","n","d","i","c","a","t","e","d">>, <<"d","a","n","g","e","r","o","u","s">>, <<"s","e","v","e","r","e">>, <<"s","e","r","i","o","u","s">>}, content_text)
       THEN [risk_level |-> <<"H","i","g","h">>, recommendation |-> <<"A","v","o","i","d">>]
     ELSE IF contains_any({<<"s","a","f","e">>, <<"n","o"," ","i","n","t","e","r","a","c","t","i","o","n">>, <<"n","o"," ","e","f","f","e","c","t">>}, content_text)
       THEN [risk_level |-> <<"N","o","n","e">>, recommendation |-> <<"S","a","f","e">>]
     ELSE [risk_level |-> <<"L","o","w">>, recommendation |-> <<"M","o","n","i","t","o","r">>]

\* Risk level and recommendation of format_interaction_results (lines 213-227)
classify(sections) ==
  LET content_text == lower(join_spaces(sections))
  IN IF contains_any({<<"a","v","o","i","d">>, <<"c","o","n","t","r","a","i","n","d","i","c","a","t","e","d">>, <<"d","a","n","g","e","r","o","u","s">>, <<"s","e","v","e","r","e">>, <<"s","e","r","i","o","u","s">>},
                     content_text)
       THEN [risk_level |-> <<"H","i","g","h">>, recommendation |-> <<"A","v","o","i","d">>]
     ELSE IF contains_any({<<"l","i","m","i","t">>, <<"r","e","d","u","c","e">>, <<"m","o","d","e","r","a","t","e">>, <<"c","a","u","t","i","o","n">>}, content_text)
       THEN [risk_level |-> <<"M","o","d","e","r","a","t","e">>, recommendation |-> <<"L","i","m","i","t">>]
     ELSE IF contains_any({<<"s","a","f","e">>, <<"n","o"," ","i","n","t","e","r","a","c","t","i","o","n">>, <<"n","o"," ","e","f","f","e","c","t">>}, content_text)
       THEN [risk_level |-> <<"N","o","n","e">>, recommendation |-> <<"S","a","f","e">>]
     ELSE [risk_level |-> <<"L","o","w">>, recommendation |-> <<"M","o","n","i","t","o","r">>]

\* Characters of the raw text kept when the summary is not available
ReasonBudget == 100

\* Mutant of truncate: the raw text is kept whole
truncate_keep_all(official_text) == official_text

\* official_text[:100] + "..." if len(official_text) > 100 else official_text
truncate(official_text) ==
  IF Len(official_text) > ReasonBudget
  THEN SubSeq(official_text, 1, ReasonBudget) \o <<".",".",".">>
  ELSE official_text

\* re.sub(r'^["\']|["\']$', '', simplified)
strip_quotes(s) ==
  LET a == IF s # <<>> /\ s[1] \in {"\"", "'"} THEN Tail(s) ELSE s
  IN IF a # <<>> /\ a[Len(a)] \in {"\"", "'"} THEN SubSeq(a, 1, Len(a) - 1) ELSE a

\* simplify_with_ai(official_text, drug, food).  `loaded` is whether
\* llm.gemini_fallback.model is set; `answer` is what model.generate_content
\* gave: kind "raise", or "text" with response.text (None for no response).
simplify_with_ai(official_text, loaded, answer) ==
  IF ~loaded THEN truncate(official_text)
  ELSE IF answer.kind = "raise" THEN truncate(official_text)
  ELSE IF truthy(answer.text) THEN strip_quotes(strip(answer.text))
  ELSE truncate(official_text)

\* The text format_interaction_results returns, given the summary
format_interaction_results(sections, drug_name, food_item, simplified_reason) ==
  LET c == classify(sections)
      has_interaction == IF c.risk_level # <<"N","o","n","e">> THEN <<"Y","e","s">> ELSE <<"N","o">>
  IN <<"\n", "**RISK LEVEL**: ">> \o c.risk_level
       \o <<"\n", "\n", "**INTERACTION**: ">> \o has_interaction
       \o <<" - Found in official medical database", "\n", "\n", "**RECOMMENDATION**: ">>
       \o c.recommendation \o <<" - ">> \o lower(c.recommendation) \o <<" ">>
       \o (IF truthy(food_item) THEN lower(food_item) ELSE <<"t","h","i","s"," ","f","o","o","d">>)
       \o <<"\n", "\n", "**REASON**: ">> \o simplified_reason
       \o <<"\n", "\n", "---", "\n",
            "*Source: MedlinePlus.gov - Official Medical Database*", "\n">>

\* Mutant of scrape_sections: the request is sent before the URL is looked up
scrape_sections_fetch_first(drug_name, food_item, fetch) ==
  LET generic_name == extract_generic_name(drug_name)
  IN IF generic_name = Raise \/ generic_name = None
       THEN [sections |-> None, fetched |-> FALSE]
     ELSE IF lower(generic_name) \notin DRUG_LOOKUP
       THEN [sections |-> None, fetched |-> TRUE]
     ELSE IF fetch.kind = "fail"
       THEN [sections |-> None, fetched |-> TRUE]
     ELSE LET interaction_sections == filter_by_food(find_sections(fetch.page), food_item)
          IN [sections |-> IF interaction_sections # <<>> THEN interaction_sections ELSE None,
              fetched |-> TRUE]

\* scrape_medlineplus up to the call of format_interaction_results: the
\* sections found, or None when the function returns None before it.  `fetch`
\* is the answer to requests.get: kind "fail" (RequestException, timeout,
\* HTTP error status) or "ok" with the page; fetched tells whether a request
\* was sent.
scrape_sections(drug_name, food_item, fetch) ==
  LET generic_name == extract_generic_name(drug_name)
  IN IF generic_name = Raise \/ generic_name = None
       THEN [sections |-> None, fetched |-> FALSE]
     ELSE IF lower(generic_name) \notin DRUG_LOOKUP
       THEN [sections |-> None, fetched |-> FALSE]
     ELSE IF fetch.kind = "fail"
       THEN [sections |-> None, fetched |-> TRUE]
     ELSE LET interaction_sections == filter_by_food(find_sections(fetch.page), food_item)
          IN [sections |-> IF interaction_sections # <<>> THEN interaction_sections ELSE None,
              fetched |-> TRUE]

-----------------------------------------------------------------------------
(* Inputs of the name lookups: the names asked and the service's answers *)

\* Longest list of concepts in a drugs.json answer
MaxCands == 2

\* Names the terminology service answers with
NamePool == {<<"a","t","o","r","v","a","s","t","a","t","i","n">>, <<"L","i","p","i","t","o","r">>}

\* Names asked: a generic name and a capitalised brand name of the alias
\* table (both names the service answers with), a brand name with
\* surrounding blanks, and blank input
ResolveNames ==
  NamePool \cup {<<" ","A","d","v","i","l"," ">>, <<>>, <<" "," ">>}

SynonymTypes == {"IN", "BN", "SBD"}

Concepts ==
  {[name |-> <<"a","t","o","r","v","a","s","t","a","t","i","n">>, synonymType |-> "IN"],
   [name |-> <<"L","i","p","i","t","o","r">>, synonymType |-> "BN"],
   [name |-> <<"a","t","o","r","v","a","s","t","a","t","i","n"," ","8","0"," ","M","G"," ","O","r","a","l"," ","T","a","b","l","e","t"," ","[","L","i","p","i","t","o","r","]">>, synonymType |-> "SBD"]}

RECURSIVE SeqsUpTo(_, _)
SeqsUpTo(S, n) ==
  IF n = 0 THEN {<<>>}
  ELSE LET shorter == SeqsUpTo(S, n - 1)
       IN shorter \cup {Append(q, x) : q \in {r \in shorter : Len(r) = n - 1}, x \in S}

PrimaryAnswers ==
  {[kind |-> "fail", concepts |-> <<>>]}
    \cup {[kind |-> "ok", concepts |-> cs] : cs \in SeqsUpTo(Concepts, MaxCands)}

NoProps == [kind |-> "fail", name |-> Missing]

AltAnswers ==
  {[rxcui |-> r, props |-> NoProps] : r \in {"fail", "empty", "none"}}
    \cup {[rxcui |-> "id", props |-> p] :
            p \in {NoProps} \cup {[kind |-> "ok", name |-> n] : n \in {<<"a","t","o","r","v","a","s","t","a","t","i","n">>, Missing}}}

\* The answers that can make a difference to a lookup of drug_name: none on a
\* blank name or a cache hit, the secondary answers only when the primary
\* lookup falls through to them.  `ok` is whether the file can be written.
ServiceAnswers(drug_name, cache, ok) ==
  LET quiet == [primary |-> [kind |-> "fail", concepts |-> <<>>],
                rxcui |-> "fail", props |-> NoProps, save |-> ok]
      name == strip(drug_name)
  IN IF ~truthy(name) \/ has_key(cache, lower(name)) THEN {quiet}
     ELSE UNION {
       IF p.kind = "fail" THEN {[quiet EXCEPT !.primary = p]}
       ELSE IF is_new_match(best_match_loop(p.concepts, name, None), name)
         THEN {[quiet EXCEPT !.primary = p]}
       ELSE {[primary |-> p, rxcui |-> a.rxcui, props |-> a.props, save |-> ok] :
               a \in AltAnswers}
       : p \in PrimaryAnswers }

\* Content of data/drug_cache.json when the process starts
StartFiles == {EmptyDict, <<"l","i","p","i","t","o","r">> :> <<"a","t","o","r","v","a","s","t","a","t","i","n">>}

-----------------------------------------------------------------------------
(* Values of the variables before anything is called *)

NoCall ==
  [fn |-> "none", name |-> None, ret |-> None, network |-> 0, writes |-> 0,
   path |-> "none", prior |-> None, wasCanon |-> FALSE]

NoWatch == [name |-> None, ret |-> None, given |-> FALSE]

NoQuery == [drug |-> None, food |-> None]

NoResult == [source |-> "none", response |-> None, generic_drug |-> None]

NoneInvoked ==
  [scraper |-> 0, fetch |-> 0, summary |-> 0, adapter |-> 0, predictor |-> 0,
   fetch_failed |-> FALSE, summary_failed |-> FALSE]

\* No invocation of check_interaction is under way
CoreIdle ==
  /\ modelLoaded = FALSE
  /\ pc = "idle"
  /\ raw_drug = None
  /\ raw_food = None
  /\ fault = "none"
  /\ hung = "none"
  /\ generic_drug = None
  /\ pending = None
  /\ official_result = None
  /\ ai_response = None
  /\ result = NoResult
  /\ invoked = NoneInvoked

\* Lookups that run concurrently
NumWorkers == 2

Workers == 1..NumWorkers

\* No concurrent lookup is under way
ConcIdle ==
  /\ layout = "threads"
  /\ memory = [p \in Workers |-> EmptyDict]
  /\ at = [w \in Workers |-> "done"]
  /\ job = [w \in Workers |-> None]
  /\ found = [w \in Workers |-> None]
  /\ wrote = {}

-----------------------------------------------------------------------------
(* Sequential name lookups of one process: SpecResolve *)

\* The branches that return a name found in the cache or given by the service
ResolvedPaths == {"primary", "alt", "alt_orig", "hit"}

InitResolve ==
  /\ cacheFile \in StartFiles
  /\ DRUG_CACHE = load_drug_cache(cacheFile)
  /\ call = NoCall
  /\ candidates = <<>>
  /\ watch = NoWatch
  /\ writable \in BOOLEAN
  /\ query = NoQuery
  /\ verdict = None
  /\ CoreIdle
  /\ ConcIdle

\* One call of get_generic_name, as core.check_interaction makes it.  The
\* history variable may start to watch the lookup if it resolved the name.
GetGenericName ==
  \E n \in ResolveNames : \E svc \in ServiceAnswers(n, DRUG_CACHE, writable) :
    \E o \in {get_generic_name(n, DRUG_CACHE, cacheFile, svc)} :
      /\ DRUG_CACHE' = o.cache
      /\ cacheFile' = o.file
      /\ call' = [fn |-> "get_generic_name", name |-> n, ret |-> o.ret,
                  network |-> o.network, writes |-> o.writes, path |-> o.path,
                  prior |-> IF watch.name = n THEN watch.ret ELSE None,
                  wasCanon |-> watch.given /\ watch.ret = n]
      /\ \/ UNCHANGED watch
         \/ /\ watch = NoWatch
            /\ o.path \in ResolvedPaths
            /\ watch' = [name |-> n, ret |-> o.ret,
                         given |-> o.path \in {"primary", "alt"}]
      /\ UNCHANGED <<writable, candidates, predictVars, coreVars, concVars>>

\* One call of get_generic_name_quick, as app.py makes it while the name is typed
GetGenericNameQuick ==
  \E n \in ResolveNames : \E svc \in ServiceAnswers(n, DRUG_CACHE, writable) :
    \E o \in {get_generic_name_quick(n, DRUG_CACHE, cacheFile, svc)} :
      /\ DRUG_CACHE' = o.cache
      /\ cacheFile' = o.file
      /\ call' = [fn |-> "get_generic_name_quick", name |-> n, ret |-> o.ret,
                  network |-> o.network, writes |-> o.writes, path |-> o.path,
                  prior |-> None, wasCanon |-> FALSE]
      /\ UNCHANGED <<watch, writable, candidates, predictVars, coreVars, concVars>>

NextResolve == GetGenericName \/ GetGenericNameQuick

SpecResolve == InitResolve /\ [][NextResolve]_vars

-----------------------------------------------------------------------------
(* core.py: check_interaction, one statement group per step: Spec *)

SourceTags == {"official", "ai", "ml", "error"}

\* The message of the error tuple: a fixed prefix and str(e)
ErrorMessage == <<"An error occurred while checking interactions: ", "<str(e)>">>

\* Mutant of handle_exception: the canonical name is returned
handle_exception_canonical(given, canonical) ==
  [source |-> "error", response |-> ErrorMessage, generic_drug |-> canonical]

\* The except branch of check_interaction (core.py lines 45-47): `given` is
\* the argument drug, `canonical` the local generic_drug
handle_exception(given, canonical) ==
  [source |-> "error", response |-> ErrorMessage, generic_drug |-> given]

\* Mutant of is_official: a scraper result is never taken
is_official_never(text) == FALSE

\* official_result and official_result.strip()  (core.py line 27)
is_official(text) == truthy(text) /\ truthy(strip(text))

\* Mutant of says_no_interaction: the phrase is compared as written
says_no_interaction_as_written(text) ==
  truthy(text) /\ contains(<<"n","o"," ","k","n","o","w","n"," ","i","n","t","e","r","a","c","t","i","o","n">>, text)

\* ai_response and "no known interaction" in ai_response.lower()  (line 36)
says_no_interaction(text) ==
  truthy(text) /\ contains(<<"n","o"," ","k","n","o","w","n"," ","i","n","t","e","r","a","c","t","i","o","n">>, lower(text))

\* Whether each external call carries a timeout: requests.get(..., timeout=10)
\* in rxnorm.py and medline_scraper.py; model.generate_content(prompt) in
\* simplify_with_ai is called with none.
TerminologyTimeout == TRUE

DocumentTimeout == TRUE

SummaryTimeout == FALSE

\* llm/gemini_fallback.py is not among the sources: per the specification
\* the narrative call carries a timeout and an unavailable service yields no
\* narrative.
NarrativeTimeout == TRUE

\* Raw inputs of check_interaction (app.py passes non-empty strings, which
\* may hold nothing but blanks)
CoreDrugs == {<<"L","i","p","i","t","o","r">>, <<"a","t","o","r","v","a","s","t","a","t","i","n">>, <<" "," ">>}

CoreFoods == {<<"G","r","a","p","e","f","r","u","i","t">>, <<"p","i","z","z","a">>}

\* What a test double or an unexpected failure makes raise in an invocation
Faults == {"none", "normalize", "scraper", "adapter", "predictor"}

\* The external service that never responds during an invocation
Hangs == {"none", "terminology", "document", "generative"}

Element(tag, text) == [tag |-> tag, text |-> text]

\* Pages the reference site answers with; their elements are siblings
Pages ==
  { <<Element("h2", <<"S","p","e","c","i","a","l"," ","d","i","e","t","a","r","y"," ","i","n","s","t","r","u","c","t","i","o","n","s">>),
      Element("p", <<"A","v","o","i","d"," ","g","r","a","p","e","f","r","u","i","t"," ","j","u","i","c","e",".">>),
      Element("h2", <<"S","t","o","r","a","g","e">>),
      Element("p", <<"K","e","e","p"," ","i","t"," ","c","l","o","s","e","d",".">>)>>,
    <<Element("p", <<"A","v","o","i","d"," ","a","l","c","o","h","o","l","."," ","M","o","n","i","t","o","r"," ","y","o","u","r"," ","d","i","e","t",".">>)>>,
    <<Element("li", <<"C","h","e","e","s","e"," ","i","s"," ","s","a","f","e",".">>)>>,
    <<Element("p", <<"K","e","e","p"," ","i","t"," ","c","l","o","s","e","d",".">>)>>,
    <<Element("p", <<"G","r","a","p","e","f","r","u","i","t"," ","j","u","i","c","e"," ","c","a","n"," ","r","a","i","s","e"," ","t","h","e"," ","a","m","o","u","n","t"," ","o","f"," ","t","h","i","s"," ","m","e","d","i","c","i","n","e"," ","i","n"," ","y","o","u","r"," ","b","l","o","o","d","."," ","T","a","l","k"," ","t","o"," ","y","o","u","r"," ","d","o","c","t","o","r"," ","a","b","o","u","t"," ","d","r","i","n","k","i","n","g"," ","g","r","a","p","e","f","r","u","i","t"," ","j","u","i","c","e",".">>)>> }

FetchAnswers ==
  {[kind |-> "fail", page |-> <<>>]} \cup {[kind |-> "ok", page |-> p] : p \in Pages}

\* What model.generate_content gives the summarization call
SummaryAnswers ==
  {[kind |-> "raise", text |-> None],
   [kind |-> "text", text |-> None],
   [kind |-> "text", text |-> <<"\"","S","k","i","p"," ","g","r","a","p","e","f","r","u","i","t",".","\""," ">>]}

\* What query_interaction_gemini returns
Narratives ==
  {None, <<>>, <<"N","o"," ","k","n","o","w","n"," ","i","n","t","e","r","a","c","t","i","o","n",".">>, <<"N","O"," ","K","N","O","W","N"," ","I","N","T","E","R","A","C","T","I","O","N"," ","f","o","u","n","d">>,
   <<"N","o"," ","i","n","t","e","r","a","c","t","i","o","n"," ","i","s"," ","k","n","o","w","n",".">>, <<"A","v","o","i","d"," ","g","r","a","p","e","f","r","u","i","t",".">>}

InitCore ==
  /\ cacheFile \in StartFiles
  /\ DRUG_CACHE = load_drug_cache(cacheFile)
  /\ call = NoCall
  /\ candidates = <<>>
  /\ watch = NoWatch
  /\ writable = TRUE
  /\ query = NoQuery
  /\ verdict = None
  /\ modelLoaded \in BOOLEAN
  /\ pc = "idle"
  /\ raw_drug = None
  /\ raw_food = None
  /\ fault = "none"
  /\ hung = "none"
  /\ generic_drug = None
  /\ pending = None
  /\ official_result = None
  /\ ai_response = None
  /\ result = NoResult
  /\ invoked = NoneInvoked
  /\ ConcIdle

\* check_interaction(drug, food) is entered
Call ==
  /\ pc = "idle"
  /\ \E d \in CoreDrugs, f \in CoreFoods, x \in Faults, h \in Hangs :
       /\ x = "none" \/ h = "none"
       /\ raw_drug' = d
       /\ raw_food' = f
       /\ fault' = x
       /\ hung' = h
  /\ pc' = "normalize"
  /\ UNCHANGED <<generic_drug, pending, official_result, ai_response, result, invoked,
                 modelLoaded, resolveVars, predictVars, concVars>>

\* The except branch is taken from any step
Fail(count) ==
  /\ result' = handle_exception(raw_drug, generic_drug)
  /\ invoked' = count
  /\ pc' = "done"
  /\ UNCHANGED <<raw_drug, raw_food, fault, hung, generic_drug, pending, official_result,
                 ai_response, modelLoaded, resolveVars, predictVars, concVars>>

\* generic_drug = get_generic_name(drug)  (core.py line 20).  A request to a
\* service that never responds ends in the timeout, a RequestException.
Normalize ==
  /\ pc = "normalize"
  /\ IF fault = "normalize" THEN Fail(invoked)
     ELSE \E svc \in {a \in ServiceAnswers(raw_drug, DRUG_CACHE, writable) :
                        (hung = "terminology" /\ TerminologyTimeout)
                          => a.primary.kind = "fail"} :
          \E o \in {get_generic_name(raw_drug, DRUG_CACHE, cacheFile, svc)} :
            /\ generic_drug' = o.ret
            /\ DRUG_CACHE' = o.cache
            /\ cacheFile' = o.file
            /\ pc' = "scrape"
            /\ UNCHANGED <<raw_drug, raw_food, fault, hung, pending, official_result, ai_response,
                           result, invoked, modelLoaded, call, watch, writable, candidates,
                           predictVars, concVars>>

\* official_result = scrape_medlineplus(generic_drug, food)  (core.py line
\* 25), up to the summarization call when there is one
Scrape ==
  /\ pc = "scrape"
  /\ IF fault = "scraper" THEN Fail([invoked EXCEPT !.scraper = 1])
     ELSE \E fetch \in {a \in FetchAnswers :
                          (hung = "document" /\ DocumentTimeout) => a.kind = "fail"} :
          \E r \in {scrape_sections(generic_drug, raw_food, fetch)} :
            /\ invoked' = [invoked EXCEPT !.scraper = 1,
                                          !.fetch = IF r.fetched THEN 1 ELSE 0,
                                          !.fetch_failed = r.fetched /\ fetch.kind = "fail"]
            /\ IF r.sections = None
                 THEN /\ official_result' = None
                      /\ pending' = None
                      /\ pc' = "official"
               ELSE IF ~modelLoaded
                 THEN /\ official_result' =
                           format_interaction_results(r.sections, generic_drug, raw_food,
                             simplify_with_ai(join_spaces(r.sections), FALSE,
                                              [kind |-> "text", text |-> None]))
                      /\ pending' = None
                      /\ pc' = "official"
               ELSE /\ pending' = r.sections
                    /\ official_result' = None
                    /\ pc' = "summarize"
            /\ UNCHANGED <<raw_drug, raw_food, fault, hung, generic_drug, ai_response, result,
                           modelLoaded, resolveVars, predictVars, concVars>>

\* response = model.generate_content(prompt) in simplify_with_ai, and the
\* rest of scrape_medlineplus.  The call waits for the service as long as it
\* takes unless it carries a timeout, which raises.
Summarize ==
  /\ pc = "summarize"
  /\ hung = "generative" => SummaryTimeout
  /\ \E answer \in {a \in SummaryAnswers : hung = "generative" => a.kind = "raise"} :
       /\ official_result' =
            format_interaction_results(pending, generic_drug, raw_food,
              simplify_with_ai(join_spaces(pending), TRUE, answer))
       /\ invoked' = [invoked EXCEPT !.summary = 1,
                                     !.summary_failed = answer.kind = "raise"]
  /\ pc' = "official"
  /\ UNCHANGED <<raw_drug, raw_food, fault, hung, generic_drug, pending, ai_response, result,
                 modelLoaded, resolveVars, predictVars, concVars>>

\* if official_result and official_result.strip(): return ("official", ...)
OfficialCheck ==
  /\ pc = "official"
  /\ IF is_official(official_result)
       THEN /\ result' = [source |-> "official", response |-> official_result,
                          generic_drug |-> generic_drug]
            /\ pc' = "done"
       ELSE /\ pc' = "narrative"
            /\ UNCHANGED result
  /\ UNCHANGED <<raw_drug, raw_food, fault, hung, generic_drug, pending, official_result,
                 ai_response, invoked, modelLoaded, resolveVars, predictVars, concVars>>

\* ai_response = query_interaction_gemini(generic_drug, food) and the test
\* of the narrative (core.py lines 33-43)
Narrative ==
  /\ pc = "narrative"
  /\ IF fault = "adapter" THEN Fail([invoked EXCEPT !.adapter = 1])
     ELSE \E text \in {t \in Narratives :
                         (hung = "generative" /\ NarrativeTimeout) => t = None} :
            /\ ai_response' = text
            /\ invoked' = [invoked EXCEPT !.adapter = 1]
            /\ IF says_no_interaction(text)
                 THEN /\ pc' = "predict"
                      /\ UNCHANGED result
                 ELSE /\ result' = [source |-> "ai", response |-> text,
                                    generic_drug |-> generic_drug]
                      /\ pc' = "done"
            /\ UNCHANGED <<raw_drug, raw_food, fault, hung, generic_drug, pending, official_result,
                           modelLoaded, resolveVars, predictVars, concVars>>

\* ml_prediction = predict_interaction(generic_drug, food); return ("ml", ...)
Predict ==
  /\ pc = "predict"
  /\ IF fault = "predictor" THEN Fail([invoked EXCEPT !.predictor = 1])
     ELSE /\ result' = [source |-> "ml",
                        response |-> predict_interaction(generic_drug, raw_food),
                        generic_drug |-> generic_drug]
          /\ invoked' = [invoked EXCEPT !.predictor = 1]
          /\ pc' = "done"
          /\ UNCHANGED <<raw_drug, raw_food, fault, hung, generic_drug, pending, official_result,
                         ai_response, modelLoaded, resolveVars, predictVars, concVars>>

\* The tuple is handed to the caller; the next invocation starts afresh
Return ==
  /\ pc = "done"
  /\ pc' = "idle"
  /\ raw_drug' = None
  /\ raw_food' = None
  /\ fault' = "none"
  /\ hung' = "none"
  /\ generic_drug' = None
  /\ pending' = None
  /\ official_result' = None
  /\ ai_response' = None
  /\ result' = NoResult
  /\ invoked' = NoneInvoked
  /\ UNCHANGED <<modelLoaded, resolveVars, predictVars, concVars>>

Next == Call \/ Normalize \/ Scrape \/ Summarize \/ OfficialCheck \/ Narrative
          \/ Predict \/ Return

Spec == InitCore /\ [][Next]_vars

-----------------------------------------------------------------------------
(* Concurrent name lookups over one cache file: SpecConc *)

\* Names the concurrent lookups resolve, each lookup another name
ConcNames == {<<"L","i","p","i","t","o","r">>, <<"a","t","o","r","v","a","s","t","a","t","i","n">>, <<"A","d","v","i","l">>}

Layouts == {"threads", "processes"}

\* The process a lookup runs in: DRUG_CACHE is a module global, loaded when
\* the module is imported (rxnorm.py lines 12 and 36-37), so threads share
\* one dict and every process has its own.
process_of(w) == IF layout = "threads" THEN 1 ELSE w

InitConc ==
  /\ cacheFile \in StartFiles
  /\ DRUG_CACHE = load_drug_cache(cacheFile)
  /\ call = NoCall
  /\ candidates = <<>>
  /\ watch = NoWatch
  /\ writable = TRUE
  /\ query = NoQuery
  /\ verdict = None
  /\ CoreIdle
  /\ layout \in Layouts
  /\ memory = [p \in Workers |-> load_drug_cache(cacheFile)]
  /\ at = [w \in Workers |-> "lookup"]
  /\ job \in {f \in [Workers -> ConcNames] : \A v, w \in Workers : v # w => f[v] # f[w]}
  /\ found = [w \in Workers |-> None]
  /\ wrote = {}

\* get_generic_name up to the value to cache (rxnorm.py lines 49-87, and
\* lines 108-137 when the primary answer gives no new name): the cache check
\* and the requests.  Nothing shared is changed.
Lookup(w) ==
  /\ at[w] = "lookup"
  /\ \E svc \in ServiceAnswers(job[w], memory[process_of(w)], TRUE) :
       \E o \in {get_generic_name(job[w], memory[process_of(w)], cacheFile, svc)} :
         IF o.writes = 0
           THEN /\ at' = [at EXCEPT ![w] = "done"]
                /\ UNCHANGED found
           ELSE /\ at' = [at EXCEPT ![w] = "store"]
                /\ found' = [found EXCEPT ![w] = o.cache[lower(strip(job[w]))]]
  /\ UNCHANGED <<layout, memory, job, wrote, resolveVars, predictVars, coreVars>>

\* DRUG_CACHE[drug_name.lower()] = best_match  (rxnorm.py lines 89, 132, 139)
Store(w) ==
  /\ at[w] = "store"
  /\ memory' = [memory EXCEPT ![process_of(w)] = dict_set(@, lower(strip(job[w])), found[w])]
  /\ wrote' = wrote \cup {[key |-> lower(strip(job[w])), value |-> found[w]]}
  /\ at' = [at EXCEPT ![w] = "save"]
  /\ UNCHANGED <<layout, job, found, resolveVars, predictVars, coreVars>>

\* save_drug_cache()  (rxnorm.py lines 90, 133, 140): the file is opened
\* for writing and the whole dict of the process is dumped into it
Save(w) ==
  /\ at[w] = "save"
  /\ cacheFile' = save_drug_cache(memory[process_of(w)], cacheFile, writable)
  /\ at' = [at EXCEPT ![w] = "done"]
  /\ UNCHANGED <<layout, memory, job, found, wrote, DRUG_CACHE, call, watch, writable,
                 candidates, predictVars, coreVars>>

NextConc == \E w \in Workers : Lookup(w) \/ Store(w) \/ Save(w)

SpecConc == InitConc /\ [][NextConc]_vars

-----------------------------------------------------------------------------
(* format_interaction_results applied to the sections found: SpecFormat *)

\* Sections a page can give, by the words of each rank they hold
Passages ==
  {<<"A","v","o","i","d"," ","a","l","c","o","h","o","l","."," ","M","o","n","i","t","o","r"," ","y","o","u","r"," ","d","i","e","t",".">>,
   <<"L","i","m","i","t"," ","j","u","i","c","e",";"," ","c","h","e","e","s","e"," ","i","s"," ","s","a","f","e",".">>,
   <<"U","s","e"," ","c","a","u","t","i","o","n"," ","w","i","t","h"," ","S","E","V","E","R","E"," ","n","a","u","s","e","a",".">>,
   <<"F","o","o","d"," ","h","a","s"," ","n","o"," ","e","f","f","e","c","t",".">>,
   <<"T","a","k","e"," ","i","t"," ","w","i","t","h"," ","m","e","a","l","s",".">>,
   <<"R","e","d","u","c","e"," ","s","a","l","t",".">>,
   <<"I","t"," ","i","s"," ","c","o","n","t","r","a","i","n","d","i","c","a","t","e","d",".">>,
   <<"N","o"," ","i","n","t","e","r","a","c","t","i","o","n"," ","w","i","t","h"," ","m","i","l","k",".">>,
   <<"D","a","n","g","e","r","o","u","s"," ","w","i","t","h"," ","g","r","a","p","e","f","r","u","i","t",".">>,
   <<"A"," ","m","o","d","e","r","a","t","e"," ","d","i","e","t"," ","i","s"," ","s","a","f","e",".">>}

MaxSections == 2

SectionLists == SeqsUpTo(Passages, MaxSections) \ {<<>>}

InitFormat ==
  /\ cacheFile = EmptyDict
  /\ DRUG_CACHE = load_drug_cache(cacheFile)
  /\ call = NoCall
  /\ candidates = <<>>
  /\ watch = NoWatch
  /\ writable = TRUE
  /\ query = NoQuery
  /\ verdict = None
  /\ ConcIdle
  /\ modelLoaded \in BOOLEAN
  /\ pc = "format"
  /\ raw_drug = <<"a","t","o","r","v","a","s","t","a","t","i","n">>
  /\ raw_food \in {None, <<"G","r","a","p","e","f","r","u","i","t">>}
  /\ fault = "none"
  /\ hung = "none"
  /\ generic_drug = raw_drug
  /\ pending \in SectionLists
  /\ official_result = None
  /\ ai_response = None
  /\ result = NoResult
  /\ invoked = NoneInvoked

\* result = format_interaction_results(interaction_sections, drug_name, food_item)
Format ==
  /\ pc = "format"
  /\ \E answer \in SummaryAnswers :
       official_result' =
         format_interaction_results(pending, generic_drug, raw_food,
           simplify_with_ai(join_spaces(pending), modelLoaded, answer))
  /\ pc' = "formatted"
  /\ UNCHANGED <<raw_drug, raw_food, fault, hung, generic_drug, pending, ai_response, result,
                 invoked, modelLoaded, resolveVars, predictVars, concVars>>

NextFormat == Format

SpecFormat == InitFormat /\ [][NextFormat]_vars

-----------------------------------------------------------------------------
(* One name lookup over a given drugs.json answer: SpecSelect *)

\* Names looked up: one the service does not answer with, and both it does
SelectNames == NamePool \cup {<<"A","d","v","i","l">>}

InitSelect ==
  /\ cacheFile \in StartFiles
  /\ DRUG_CACHE = load_drug_cache(cacheFile)
  /\ call = NoCall
  /\ candidates \in SeqsUpTo(Concepts, MaxCands)
  /\ watch = NoWatch
  /\ writable = TRUE
  /\ query = NoQuery
  /\ verdict = None
  /\ CoreIdle
  /\ ConcIdle

\* get_generic_name(n) while the drug search answers with `candidates`
Select ==
  /\ call = NoCall
  /\ \E n \in SelectNames :
     \E svc \in {a \in ServiceAnswers(n, DRUG_CACHE, writable) :
                   a.primary = [kind |-> "ok", concepts |-> candidates]} :
     \E o \in {get_generic_name(n, DRUG_CACHE, cacheFile, svc)} :
       /\ DRUG_CACHE' = o.cache
       /\ cacheFile' = o.file
       /\ call' = [fn |-> "get_generic_name", name |-> n, ret |-> o.ret,
                   network |-> o.network, writes |-> o.writes, path |-> o.path,
                   prior |-> None, wasCanon |-> FALSE]
  /\ UNCHANGED <<watch, writable, candidates, predictVars, coreVars, concVars>>

NextSelect == Select

SpecSelect == InitSelect /\ [][NextSelect]_vars

-----------------------------------------------------------------------------
(* The predictor applied to one pair: SpecPredict *)

\* str.capitalize() of a lowercase word
capitalize(s) == IF s = <<>> THEN s ELSE <<upper_ch(s[1])>> \o Tail(s)

LetterCases(s) == {s, upper(s), capitalize(s)}

TableDrugs == {DRUG_FOOD_INTERACTIONS[i].drug : i \in DOMAIN DRUG_FOOD_INTERACTIONS}

TableFoods == {DRUG_FOOD_INTERACTIONS[i].food : i \in DOMAIN DRUG_FOOD_INTERACTIONS}

CategoryFoods ==
  UNION {{FOOD_CATEGORIES[i].foods[j] : j \in DOMAIN FOOD_CATEGORIES[i].foods} :
           i \in DOMAIN FOOD_CATEGORIES}

\* Drugs asked: every drug of the table in three letter cases, a drug of no
\* entry, a fragment of a drug name, a longer name, and the empty string
PredictDrugs ==
  UNION {LetterCases(d) : d \in TableDrugs}
    \cup {<<"a","s","p","i","r","i","n">>, <<"s","t","a","t","i","n">>, <<"w","a","r","f","a","r","i","n"," ","s","o","d","i","u","m">>, <<>>}

\* Foods asked: every food of the table in three letter cases, every member
\* of a category, a longer and a shorter form of a table food, a food of no
\* entry, and the empty string
PredictFoods ==
  UNION {LetterCases(f) : f \in TableFoods}
    \cup CategoryFoods
    \cup {<<"c","r","a","n","b","e","r","r","y"," ","j","u","i","c","e">>, <<"c","r","a","n">>, <<"p","i","z","z","a">>, <<>>}

InitPredict ==
  /\ query \in [drug : PredictDrugs, food : PredictFoods]
  /\ verdict = None
  /\ cacheFile = EmptyDict
  /\ DRUG_CACHE = load_drug_cache(cacheFile)
  /\ call = NoCall
  /\ candidates = <<>>
  /\ watch = NoWatch
  /\ writable = TRUE
  /\ CoreIdle
  /\ ConcIdle

PredictInteraction ==
  /\ verdict = None
  /\ verdict' = predict_interaction(query.drug, query.food)
  /\ UNCHANGED <<query, resolveVars, coreVars, concVars>>

NextPredict == PredictInteraction

SpecPredict == InitPredict /\ [][NextPredict]_vars

-----------------------------------------------------------------------------
(* Claims about check_interaction, checked under Spec *)

\* C1: whenever the scraper returned a text that is neither null nor blank,
\* the result is (official, that text, canonical drug) and neither
\* query_interaction_gemini nor predict_interaction is invoked at any point
\* of the invocation.
C1_OfficialShortCircuit ==
  (pc \in {"official", "narrative", "predict", "done"}
     /\ official_result # None /\ strip(official_result) # <<>>)
    => /\ invoked.adapter = 0
       /\ invoked.predictor = 0
       /\ pc \in {"official", "done"}
       /\ pc = "done" => result = [source |-> "official", response |-> official_result,
                                   generic_drug |-> generic_drug]

\* C1 witness: an official result is returned after the scraper's own
\* summarization call
C1_Witness ==
  /\ pc = "done"
  /\ result.source = "official"
  /\ result.response = official_result
  /\ invoked.summary = 1
  /\ generic_drug # raw_drug

\* The narrative holds the phrase, letter case apart
HoldsPhrase(text) ==
  text # None /\ contains(<<"n","o"," ","k","n","o","w","n"," ","i","n","t","e","r","a","c","t","i","o","n">>, lower(text))

\* C2: when the scraper yields no result (and nothing raises), the result
\* is the predictor's output tagged ml if the narrative contains "no known
\* interaction" compared case-insensitively, and the narrative itself tagged
\* ai in every other case; the predictor is invoked only in the ml case.
C2_NarrativeSelectsSource ==
  /\ (pc = "done" /\ fault = "none"
        /\ (official_result = None \/ strip(official_result) = <<>>))
       => /\ invoked.adapter = 1
          /\ IF HoldsPhrase(ai_response)
               THEN /\ result.source = "ml"
                    /\ result.response = predict_interaction(generic_drug, raw_food)
                    /\ result.generic_drug = generic_drug
                    /\ invoked.predictor = 1
               ELSE /\ result = [source |-> "ai", response |-> ai_response,
                                 generic_drug |-> generic_drug]
                    /\ invoked.predictor = 0
  /\ invoked.predictor = 1 => HoldsPhrase(ai_response)

\* C2 witness: a narrative holding the phrase in upper case gives ml
C2_Witness ==
  /\ pc = "done"
  /\ result.source = "ml"
  /\ ai_response = <<"N","O"," ","K","N","O","W","N"," ","I","N","T","E","R","A","C","T","I","O","N"," ","f","o","u","n","d">>
  /\ invoked.scraper = 1

\* A dependency has raised during the invocation
Raised ==
  \/ fault = "normalize" /\ pc # "normalize"
  \/ fault = "scraper" /\ invoked.scraper = 1
  \/ fault = "adapter" /\ invoked.adapter = 1
  \/ fault = "predictor" /\ invoked.predictor = 1

\* C3: a failure raised by the normalization, the scraper, the adapter or
\* the predictor is returned as (error, message, raw drug), the third
\* component being the raw input, and every returned tag is one of official,
\* ai, ml, error.
C3_TotalErrorTuple ==
  /\ Raised => /\ pc = "done"
               /\ result = [source |-> "error", response |-> ErrorMessage,
                            generic_drug |-> raw_drug]
  /\ pc = "done" => result.source \in SourceTags

\* C3 witness: the scraper raises after the name was normalized to another
\* name, and the raw name is returned
C3_Witness ==
  /\ pc = "done"
  /\ fault = "scraper"
  /\ generic_drug # None
  /\ generic_drug # raw_drug
  /\ result.source = "error"
  /\ result.generic_drug = raw_drug

\* C8: concurrent writers serialize access to the name cache: once all the
\* concurrent lookups of different uncached names have completed, the cache
\* file holds every entry any of them wrote.
C8_NoEntryLost ==
  (\A w \in Workers : at[w] = "done" /\ job[w] # None)
    => \A e \in wrote : has_key(cacheFile, e.key) /\ cacheFile[e.key] = e.value

\* C9: every external call carries a timeout, so an invocation that waits
\* for the terminology lookup, the summarization call or the narrative call
\* can always take its next step, whichever external service never responds.
C9_NoCallWaitsForever ==
  /\ pc = "normalize" => ENABLED Normalize
  /\ pc = "summarize" => ENABLED Summarize
  /\ pc = "narrative" => ENABLED Narrative

-----------------------------------------------------------------------------
(* Claims about the name lookups, checked under SpecResolve *)

\* C4: every name that equals a brand key of COMMON_DRUG_MAPPINGS
\* case-insensitively is normalized by get_generic_name to the mapped generic
\* name, with no request to the terminology service and no cache write,
\* whatever the cache contains.
C4_AliasNoNetwork ==
  (call.fn = "get_generic_name" /\ has_key(COMMON_DRUG_MAPPINGS, lower(call.name)))
    => /\ call.ret = COMMON_DRUG_MAPPINGS[lower(call.name)]
       /\ call.network = 0
       /\ call.writes = 0

\* C5: once a lookup has resolved a name, every later lookup of the identical
\* name returns the same value and sends no request to the terminology
\* service, whatever lookups of other names came in between.
C5_CacheShortCircuit ==
  (call.fn = "get_generic_name" /\ call.prior # None)
    => (call.ret = call.prior /\ call.network = 0)

\* C5 witness: a name the service resolved earlier is looked up again, after
\* a lookup of another name
C5_Witness ==
  /\ call.fn = "get_generic_name"
  /\ call.prior # None
  /\ watch.given
  /\ watch.name = call.name
  /\ \E k \in DOMAIN DRUG_CACHE : k # lower(strip(call.name))

\* C6: a name that a lookup has returned as the canonical name of another
\* name is returned unchanged when it is looked up itself, whatever the
\* terminology service answers.
C6_Idempotent ==
  (call.fn = "get_generic_name" /\ call.wasCanon) => call.ret = call.name

\* C7: whenever every lookup path fails (blank input, request failure, no
\* usable candidate) get_generic_name returns exactly the string it was given.
C7_FailureReturnsInput ==
  (call.fn = "get_generic_name"
     /\ call.path \in {"blank", "primary_fail", "alt_fail", "alt_orig"})
    => call.ret = call.name

-----------------------------------------------------------------------------
(* Claims about the predictor, checked under SpecPredict *)

\* The element of a rendered verdict that follows a label of the template
field_after(text, label) ==
  text[(CHOOSE i \in DOMAIN text : text[i] = label) + 1]

risk_shown(text) == field_after(text, "**RISK LEVEL**: ")

action_shown(text) == field_after(text, "**RECOMMENDATION**: ")

\* The action the recommendation text stands for
action_of_text(recommendation) ==
  IF contains(<<"a","v","o","i","d">>, lower(recommendation)) THEN "Avoid"
  ELSE IF contains(<<"l","i","m","i","t">>, lower(recommendation)) THEN "Limit"
  ELSE IF contains(<<"m","o","n","i","t","o","r">>, lower(recommendation)) THEN "Monitor"
  ELSE "Safe"

\* C10: for every (drug, food) key of the table, asked in any letter case,
\* predict_interaction shows the entry's stored risk level and the action its
\* stored recommendation text stands for (avoid, else limit, else monitor,
\* else Safe); atorvastatin with grapefruit shows High and Avoid.
C10_ExactPair ==
  verdict # None =>
    /\ \A i \in DOMAIN DRUG_FOOD_INTERACTIONS :
         LET e == DRUG_FOOD_INTERACTIONS[i]
         IN (lower(query.drug) = e.drug /\ lower(query.food) = e.food)
              => /\ <<risk_shown(verdict)>> = e.risk
                 /\ action_shown(verdict) = action_of_text(e.recommendation)
    /\ (lower(query.drug) = <<"a","t","o","r","v","a","s","t","a","t","i","n">> /\ lower(query.food) = <<"g","r","a","p","e","f","r","u","i","t">>)
         => (risk_shown(verdict) = "High" /\ action_shown(verdict) = "Avoid")

\* C10 witness: the pair of an entry asked in upper and capitalised case
C10_Witness ==
  /\ verdict # None
  /\ query.drug = upper(<<"a","t","o","r","v","a","s","t","a","t","i","n">>)
  /\ query.food = capitalize(<<"g","r","a","p","e","f","r","u","i","t">>)
  /\ risk_shown(verdict) = "High"
  /\ action_shown(verdict) = "Avoid"

-----------------------------------------------------------------------------
(* Claims about the name lookup beyond the cache *)

\* The names of the candidates with this tag, in the order returned
RECURSIVE tagged(_, _)
tagged(concepts, tag) ==
  IF concepts = <<>> THEN <<>>
  ELSE (IF Head(concepts).synonymType = tag THEN <<Head(concepts).name>> ELSE <<>>)
         \o tagged(Tail(concepts), tag)

\* The candidate the preference names: an IN candidate if there is one,
\* else a BN candidate if there is one, else the first candidate
preferred(concepts) ==
  IF tagged(concepts, "IN") # <<>> THEN Head(tagged(concepts, "IN"))
  ELSE IF tagged(concepts, "BN") # <<>> THEN Head(tagged(concepts, "BN"))
  ELSE Head(concepts).name

\* C14: on a cache miss, the candidate the lookup takes from the drug-search
\* answer is one tagged IN if any exists, otherwise one tagged BN if any
\* exists, otherwise the first, whatever the order of the candidates.
C14_PrefersGeneric ==
  (call.fn = "get_generic_name" /\ call.path = "primary")
    => call.ret = preferred(candidates)

\* C15: whenever the primary lookup ends in a network or protocol failure or
\* yields no usable candidate, a request of the secondary path is sent before
\* the input is returned.
C15_SecondaryAttempted ==
  (call.fn = "get_generic_name" /\ call.path \in {"primary_fail", "alt_fail", "alt_orig", "alt"})
    => call.network >= 2

\* C16: whenever the lookup returns a name that differs from its input, the
\* cache maps the lowercased input to that name and so does the file; and
\* between invocations the file and the cache hold the same entries, provided
\* the file can be written.
C16_WriteThrough ==
  writable =>
    /\ (call.fn = "get_generic_name" /\ call.ret # call.name)
         => /\ has_key(DRUG_CACHE, lower(call.name))
            /\ DRUG_CACHE[lower(call.name)] = call.ret
            /\ has_key(cacheFile, lower(call.name))
            /\ cacheFile[lower(call.name)] = call.ret
    /\ DRUG_CACHE = cacheFile

-----------------------------------------------------------------------------
(* Claims about the scraper *)

\* The characters of the line that follows a label of the formatted text
line_after(text, label) ==
  LET i == CHOOSE k \in DOMAIN text : text[k] = label
      j == CHOOSE k \in (i + 1)..Len(text) :
             text[k] = "\n" /\ \A m \in (i + 1)..(k - 1) : text[m] # "\n"
  IN SubSeq(text, i + 1, j - 1)

starts_with(prefix, s) == Len(s) >= Len(prefix) /\ SubSeq(s, 1, Len(prefix)) = prefix

\* The rank the words of the concatenated section text give
rank_of(sections) ==
  LET text == lower(join_spaces(sections))
  IN IF contains_any({<<"a","v","o","i","d">>, <<"c","o","n","t","r","a","i","n","d","i","c","a","t","e","d">>, <<"d","a","n","g","e","r","o","u","s">>, <<"s","e","v","e","r","e">>, <<"s","e","r","i","o","u","s">>}, text)
       THEN [risk |-> <<"H","i","g","h">>, action |-> <<"A","v","o","i","d">>]
     ELSE IF contains_any({<<"l","i","m","i","t">>, <<"r","e","d","u","c","e">>, <<"m","o","d","e","r","a","t","e">>, <<"c","a","u","t","i","o","n">>}, text)
       THEN [risk |-> <<"M","o","d","e","r","a","t","e">>, action |-> <<"L","i","m","i","t">>]
     ELSE IF contains_any({<<"s","a","f","e">>, <<"n","o"," ","i","n","t","e","r","a","c","t","i","o","n">>, <<"n","o"," ","e","f","f","e","c","t">>}, text)
       THEN [risk |-> <<"N","o","n","e">>, action |-> <<"S","a","f","e">>]
     ELSE [risk |-> <<"L","o","w">>, action |-> <<"M","o","n","i","t","o","r">>]

\* C12: over the concatenated section text, any of avoid, contraindicated,
\* dangerous, severe, serious gives High/Avoid whatever other words are
\* there; otherwise any of limit, reduce, moderate, caution gives
\* Moderate/Limit; otherwise any of safe, no interaction, no effect gives
\* None/Safe; otherwise Low/Monitor; the interaction flag is No exactly when
\* the risk is None.
C12_RiskPriority ==
  pc = "formatted" =>
    /\ line_after(official_result, "**RISK LEVEL**: ") = rank_of(pending).risk
    /\ starts_with(rank_of(pending).action \o <<" - ">>,
                    line_after(official_result, "**RECOMMENDATION**: "))
    /\ starts_with(IF rank_of(pending).risk = <<"N","o","n","e">> THEN <<"N","o">> ELSE <<"Y","e","s">>,
                    line_after(official_result, "**INTERACTION**: "))
    /\ (contains(<<"a","v","o","i","d">>, lower(join_spaces(pending))) /\ contains(<<"m","o","n","i","t","o","r">>, lower(join_spaces(pending))))
         => line_after(official_result, "**RISK LEVEL**: ") = <<"H","i","g","h">>

\* C12 witness: a section with words of the third rank followed by a section
\* with a word of the second rank is formatted as Moderate, interaction Yes
C12_Witness ==
  /\ pc = "formatted"
  /\ pending = <<<<"F","o","o","d"," ","h","a","s"," ","n","o"," ","e","f","f","e","c","t",".">>, <<"R","e","d","u","c","e"," ","s","a","l","t",".">>>>
  /\ line_after(official_result, "**RISK LEVEL**: ") = <<"M","o","d","e","r","a","t","e">>
  /\ starts_with(<<"Y","e","s">>, line_after(official_result, "**INTERACTION**: "))

\* The key derived from the canonical name has no entry in the URL table
NoUrl(name) ==
  LET generic_name == extract_generic_name(name)
  IN generic_name \notin {Raise, None} /\ lower(generic_name) \notin DRUG_LOOKUP

\* C13: when the lookup key derived from the canonical drug name has no
\* entry in the drug->URL table, the scraper returns null without attempting
\* a document fetch, and the orchestrator proceeds to the generative adapter.
C13_NoUrlNoFetch ==
  (invoked.scraper = 1 /\ fault # "scraper" /\ NoUrl(generic_drug))
    => /\ invoked.fetch = 0
       /\ official_result = None
       /\ pc \in {"official", "narrative", "predict", "done"}
       /\ pc = "done" => (invoked.adapter = 1 /\ result.source # "official")

\* C13 witness: a name without a URL went to the adapter with no fetch
C13_Witness ==
  /\ pc = "done"
  /\ generic_drug = <<"L","i","p","i","t","o","r">>
  /\ invoked.scraper = 1
  /\ invoked.fetch = 0
  /\ invoked.adapter = 1
  /\ result.source = "ai"

\* The scraper returned null and the orchestrator went on to the adapter
FellThrough ==
  /\ official_result = None
  /\ pc \in {"official", "narrative", "predict", "done"}
  /\ pc = "done" => /\ invoked.adapter = 1
                    /\ fault = "none" => result.source \in {"ai", "ml"}

\* C18: a network or HTTP error or a timeout of the document fetch, and an
\* exception raised while the scraper works on its input, make
\* scrape_medlineplus return null without raising, and the orchestrator goes
\* on to the generative adapter instead of returning an error; a failure of
\* the summarization call leaves an official result whose reason is the raw
\* section text cut to the fixed number of characters.
C18_ScraperFailSoft ==
  /\ invoked.fetch_failed => FellThrough
  /\ (invoked.scraper = 1 /\ fault # "scraper" /\ extract_generic_name(generic_drug) = Raise)
       => FellThrough
  /\ invoked.summary_failed =>
       LET raw == join_spaces(pending)
           reason == line_after(official_result, "**REASON**: ")
       IN /\ IF Len(raw) > ReasonBudget
                THEN reason = SubSeq(raw, 1, ReasonBudget) \o <<".", ".", ".">>
                ELSE reason = raw
          /\ pc \in {"official", "done"}
          /\ pc = "done" => result.source = "official"

\* C18 witness: the summarization call failed on a section text longer than
\* the budget and the official result was returned
C18_Witness ==
  /\ pc = "done"
  /\ invoked.summary_failed
  /\ Len(join_spaces(pending)) > ReasonBudget
  /\ result.source = "official"
  /\ result.response = official_result

-----------------------------------------------------------------------------
(* Claims about the text of the result *)

\* C21: every result tagged official, ai or ml carries a text that is
\* neither null nor blank, whatever the generative adapter answers, a null
\* or an empty narrative included.
C21_TextNeverBlank ==
  (pc = "done" /\ result.source \in {"official", "ai", "ml"})
    => (result.response # None /\ strip(result.response) # <<>>)

-----------------------------------------------------------------------------
(* Claims about the predictor beyond the exact pair *)

interaction_shown(text) == field_after(text, "**INTERACTION**: ")

\* C11: for every drug that is not the drug term of any entry together with
\* every food that is not the food term of any entry, the empty string and
\* short fragments included, predict_interaction shows risk None with action
\* Safe.
C11_UnknownPairSafe ==
  (verdict # None /\ lower(query.drug) \notin TableDrugs /\ lower(query.food) \notin TableFoods)
    => (risk_shown(verdict) = "None" /\ action_shown(verdict) = "Safe")

\* The entries the substring rule names: the drug term is a substring of,
\* or contains, the query drug, and the food term equals or is a substring of
\* the query food
substring_entries(drug_lower, food_lower) ==
  {i \in DOMAIN DRUG_FOOD_INTERACTIONS :
     LET e == DRUG_FOOD_INTERACTIONS[i]
     IN /\ contains(e.drug, drug_lower) \/ contains(drug_lower, e.drug)
        /\ contains(e.food, food_lower)}

\* C17: when the exact and the category matching found nothing,
\* predict_interaction shows the verdict of an entry whose drug term is a
\* substring of, or contains, the query drug and whose food term equals or is
\* a substring of the query food (cranberry against "cranberry juice"), and
\* the no-interaction verdict when there is no such entry, also when the
\* query food is a proper substring of an entry's food term.
C17_SubstringMatch ==
  (/\ verdict # None
   /\ direct_hits(lower(query.drug), lower(query.food)) = {}
   /\ category_match(lower(query.drug), lower(query.food)) = 0)
    => LET named == substring_entries(lower(query.drug), lower(query.food))
       IN IF named = {}
            THEN verdict = generate_no_interaction_response(query.drug, query.food)
            ELSE \E i \in named :
                   verdict = format_interaction_result(DRUG_FOOD_INTERACTIONS[i],
                                                       query.drug, query.food)

\* C19: for every category whose name is the food term of an entry
\* (grapefruit, dairy), every member food of the category and the exact drug
\* of such an entry, predict_interaction shows that entry's verdict:
\* tetracycline with milk and ciprofloxacin with cheese show the dairy
\* interaction.
C19_CategoryReachesEntries ==
  verdict # None =>
    \A c \in DOMAIN FOOD_CATEGORIES, i \in DOMAIN DRUG_FOOD_INTERACTIONS :
      (/\ DRUG_FOOD_INTERACTIONS[i].food = FOOD_CATEGORIES[c].category
       /\ lower(query.drug) = DRUG_FOOD_INTERACTIONS[i].drug
       /\ in_list(lower(query.food), FOOD_CATEGORIES[c].foods))
        => verdict = format_interaction_result(DRUG_FOOD_INTERACTIONS[i],
                                               query.drug, query.food)

\* C20: every verdict predict_interaction renders for an entry of the table
\* pairs a risk level other than None, and the interaction flag Yes, with an
\* action other than Safe; the action Safe comes only with risk None.
C20_VerdictConsistent ==
  (verdict # None /\ verdict # PredictionError)
    => /\ (risk_shown(verdict) # "None" \/ interaction_shown(verdict) = "Yes")
            => action_shown(verdict) # "Safe"
       /\ action_shown(verdict) = "Safe" => risk_shown(verdict) = "None"

====
